---- MODULE Spec2Model ----
(***************************************************************************)
(* Workout-session core of the fitquest backend                            *)
(* (backend/app/api/workout.py, backend/app/utils/workout_helpers.py,      *)
(* backend/app/schemas/workout.py).                                        *)
(*                                                                         *)
(* The Firestore documents users/{uid}/workout/{sid} and their "points"    *)
(* subcollections are the state.  The endpoints are plain "def" handlers,  *)
(* which FastAPI runs on a thread pool, so two requests can interleave at  *)
(* every Firestore call: a handler is modelled as one step per Firestore   *)
(* access that another request can observe (see add_points and             *)
(* finish_workout below), and as a single step when it makes one access.   *)
(*                                                                         *)
(* Units.  Timestamps are integer milliseconds, as in the requests.        *)
(* Python floats are modelled by scaled integers; the scale is part of the *)
(* field name (duration.seconds_x100 is duration["seconds"] * 100).        *)
(* round(x, k) is modelled by RoundOutcomes: exact away from ties, and     *)
(* either neighbour on a tie (the float nearest to x decides a tie, the    *)
(* model does not compute that float).                                     *)
(* The ISO/date/time strings of create_time_info and the "formatted"       *)
(* duration string are not modelled; timezone_offset only feeds those.     *)
(***************************************************************************)
EXTENDS Integers, Sequences, FiniteSets, TLC

\* ---------------------------------------------------------------- bounds
\* Points stored in the whole store; requests beyond it are not sent.
MaxPoints == 2
\* Metres between two neighbouring latitudes of the grid the points lie on.
LatStepM == 1

\* ---------------------------------------------------------------- inputs
Users == {"u1", "u2"}
\* The users who record workouts; the other one addresses sessions that are not theirs.
Owners == {"u1"}
\* Threads of the pool that runs the handlers.
Workers == {1, 2}
\* Document ids: the n-th document created gets id n.
SessionIds == {1}
WorkoutTypes == {"run"}
\* start_time_ms and end_time_ms of the requests (0 is a legal int).
StartTimes == {0, 10, 360}
EndTimes == {346}
\* Optional[float] = None is <<>>, a present value v is <<v>>.
None == <<>>
Some(v) == <<v>>

\* The points requests carry (lat and lng are indices of a grid, see _haversine_m):
\* two places at the same time, and a later point sent without altitude.
LocationPoint ==
    {[lat |-> 0, lng |-> 0, t_ms |-> 1, altitude |-> Some(0)],
     [lat |-> 1, lng |-> 0, t_ms |-> 1, altitude |-> Some(1)],
     [lat |-> 0, lng |-> 0, t_ms |-> 2, altitude |-> None]}

RECURSIVE SeqsUpTo(_, _)
SeqsUpTo(S, n) ==
    IF n = 0 THEN {<<>>}
    ELSE LET shorter == SeqsUpTo(S, n - 1)
         IN  shorter \cup {Append(s, x) : s \in {t \in shorter : Len(t) = n - 1}, x \in S}

\* WorkoutAddPointsRequest.points
PointLists == SeqsUpTo(LocationPoint, MaxPoints)

\* ---------------------------------------------------------------- state
VARIABLES
    docs,       \* users/{uid}/workout/{sid}: <<uid, sid>> -> document
    points_col, \* its "points" subcollection, in stream() order: <<uid, sid>> -> batches
    pc,         \* per worker thread: where its handler stands
    loc,        \* per worker thread: the handler's request and local variables
    resp,       \* the HTTP response sent last
    hist        \* history, per session: the points of the add-points calls answered
                \* with 200, and whether two add-points calls on it ever overlapped

vars == <<docs, points_col, pc, loc, resp, hist>>

Max(a, b) == IF a >= b THEN a ELSE b
Abs(a) == IF a >= 0 THEN a ELSE -a
Last(s) == s[Len(s)]

\* ---------------------------------------------------------------- rounding
\* round(num / den, k) as an integer count of 10^-k units, num and den already
\* scaled: the nearest integers to num / den (num >= 0, den > 0).
RoundOutcomes(num, den) ==
    LET q == num \div den
        r == num % den
    IN  IF 2 * r < den THEN {q}
        ELSE IF 2 * r > den THEN {q + 1}
        ELSE {q, q + 1}

\* a * b = q * den + r with 0 <= r < den, without forming a * b
\* (a, b >= 0, den > 0, 2 * den + a below 2^31).
RECURSIVE MulDivMod(_, _, _)
MulDivMod(a, b, den) ==
    IF b = 0 THEN <<0, 0>>
    ELSE LET h == MulDivMod(a, b \div 2, den)
             t == 2 * h[2] + (IF b % 2 = 1 THEN a ELSE 0)
         IN  <<2 * h[1] + (t \div den), t % den>>

\* RoundOutcomes(a * b, den) for a product beyond 32 bits.
RoundOutcomesBig(a, b, den) ==
    LET qr == MulDivMod(a, b, den)
    IN  IF 2 * qr[2] < den THEN {qr[1]}
        ELSE IF 2 * qr[2] > den THEN {qr[1] + 1}
        ELSE {qr[1], qr[1] + 1}

\* ---------------------------------------------------------------- geometry
\* _haversine_m for two points of the model's grid: the points lie on one
\* meridian (lng is 0 throughout), LatStepM metres per latitude step, where the
\* haversine formula reduces to R * |radians(lat2 - lat1)|.
_haversine_m(lat1, lng1, lat2, lng2) == LatStepM * Abs(lat2 - lat1)

\* sorted(pts, key=lambda p: p.get("t_ms", 0)): Python's sort is stable.
RECURSIVE InsertByTime(_, _)
InsertByTime(sortedPts, p) ==
    IF sortedPts = <<>> THEN <<p>>
    ELSE IF Last(sortedPts).t_ms <= p.t_ms THEN Append(sortedPts, p)
    ELSE Append(InsertByTime(SubSeq(sortedPts, 1, Len(sortedPts) - 1), p), Last(sortedPts))

\* The list as it was streamed.
StreamOrder(pts) == pts

RECURSIVE SortedByTime(_)
SortedByTime(pts) ==
    IF pts = <<>> THEN <<>>
    ELSE InsertByTime(SortedByTime(SubSeq(pts, 1, Len(pts) - 1)), Last(pts))

\* for doc in points_col: pts.extend(chunk.get("points", []))
RECURSIVE StreamPoints(_)
StreamPoints(batches) ==
    IF batches = <<>> THEN <<>>
    ELSE Head(batches) \o StreamPoints(Tail(batches))

\* total_m of finish_workout: haversine summed over consecutive points.
RECURSIVE TotalDistance(_)
TotalDistance(pts) ==
    IF Len(pts) < 2 THEN 0
    ELSE TotalDistance(SubSeq(pts, 1, Len(pts) - 1))
         + _haversine_m(pts[Len(pts) - 1].lat, pts[Len(pts) - 1].lng,
                        pts[Len(pts)].lat, pts[Len(pts)].lng)

\* The duration without the clamp at 0.
duration_ms_unclamped(end_time_ms, start_ms) == end_time_ms - start_ms

\* duration_s = max(0, (req.end_time_ms - start_ms) / 1000.0), in milliseconds.
duration_ms(end_time_ms, start_ms) == Max(0, end_time_ms - start_ms)

\* ---------------------------------------------------------------- workout_helpers
\* Each helper yields the set of dicts its roundings allow (one dict unless a
\* rounding is a tie).
calculate_distance_info(meters) ==
    [meters_x100 : RoundOutcomes(100 * meters, 1),
     kilometers_x1000 : RoundOutcomes(meters, 1),
     miles_x1000 : RoundOutcomes(meters * 100000, 160934)]

calculate_duration_info(ms) ==
    [seconds_x100 : RoundOutcomes(ms, 10),
     minutes_x100 : RoundOutcomes(ms, 600)]

ZeroPace == [min_per_km_x100 |-> 0, min_per_mile_x100 |-> 0,
             km_per_hour_x100 |-> 0, mph_x100 |-> 0]

calculate_pace_info(distance_m, ms) ==
    IF distance_m <= 0 \/ ms <= 0 THEN {ZeroPace}
    ELSE [min_per_km_x100 : RoundOutcomes(ms * 5, 3 * distance_m),
          min_per_mile_x100 : RoundOutcomes(ms * 80467, 30000 * distance_m),
          km_per_hour_x100 : RoundOutcomes(360000 * distance_m, ms),
          mph_x100 : RoundOutcomesBig(distance_m * 180000, 100000, 80467 * ms)]

\* pace buckets shared by the calorie and the intensity helpers, pace in 1/100 min/km
pace_factor_x10(pace_x100) ==
    IF pace_x100 < 500 THEN 13
    ELSE IF pace_x100 < 600 THEN 12
    ELSE IF pace_x100 < 700 THEN 11
    ELSE IF pace_x100 < 800 THEN 10
    ELSE 9

type_factor_x10(workout_type) ==
    CASE workout_type = "run" -> 10
      [] workout_type = "walk" -> 6
      [] workout_type = "cycle" -> 4
      [] workout_type = "swim" -> 15
      [] workout_type = "gym" -> 8
      [] workout_type = "other" -> 7
      [] OTHER -> 10

\* calculate_calories_burned(distance_km, user_weight_kg, workout_type, pace_min_per_km),
\* the distance given in metres.
calculate_calories_burned(distance_m, user_weight_kg, workout_type, pace_x100) ==
    IF distance_m <= 0 \/ user_weight_kg <= 0
    THEN {[burned_x10 |-> 0, user_weight |-> user_weight_kg]}
    ELSE LET pace == IF pace_x100 <= 0 THEN 800 ELSE pace_x100
         IN  [burned_x10 : RoundOutcomes(distance_m * user_weight_kg
                                           * pace_factor_x10(pace)
                                           * type_factor_x10(workout_type),
                                         10000),
              user_weight : {user_weight_kg}]

\* An analysis that takes the pace as it comes.
analyze_workout_intensity_no_default(pace_min_per_km, ms) ==
    LET pace == IF pace_min_per_km = None THEN 0 ELSE pace_min_per_km[1]
    IN  [intensity |-> IF pace < 500 THEN "very_high"
                        ELSE IF pace < 600 THEN "high"
                        ELSE IF pace < 700 THEN "moderate"
                        ELSE "low",
         effort_level |-> IF pace < 500 THEN 5
                           ELSE IF pace < 600 THEN 4
                           ELSE IF pace < 700 THEN 3
                           ELSE IF pace < 800 THEN 2
                           ELSE 1,
         zones |-> [warmup |-> Max(60, ms \div 10000), active |-> (ms * 8) \div 10000,
                    cooldown |-> Max(60, ms \div 10000)],
         pace_consistency_x100 |-> Some(85)]

\* analyze_workout_intensity(pace_min_per_km, duration_s): the pace is None or
\* Some(1/100 min/km); if pace_min_per_km is None or pace_min_per_km <= 0 it is 10.0.
analyze_workout_intensity(pace_min_per_km, ms) ==
    LET pace == IF pace_min_per_km = None THEN 1000
                ELSE IF pace_min_per_km[1] <= 0 THEN 1000
                ELSE pace_min_per_km[1]
        warm == Max(60, ms \div 10000)
    IN  [intensity |-> IF pace < 500 THEN "very_high"
                        ELSE IF pace < 600 THEN "high"
                        ELSE IF pace < 700 THEN "moderate"
                        ELSE "low",
         effort_level |-> IF pace < 500 THEN 5
                           ELSE IF pace < 600 THEN 4
                           ELSE IF pace < 700 THEN 3
                           ELSE IF pace < 800 THEN 2
                           ELSE 1,
         zones |-> [warmup |-> warm, active |-> (ms * 8) \div 10000, cooldown |-> warm],
         pace_consistency_x100 |-> Some(85)]

\* calculate_route_info compares points[i]["altitude"] with points[i-1]["altitude"]:
\* p.dict() stores altitude None for a point sent without one, .get("altitude", 0)
\* then yields None, and None > x raises TypeError.
route_info_raises(pts) ==
    Len(pts) >= 2 /\ \E i \in 1..Len(pts) : pts[i].altitude = None

RECURSIVE elevation_gain(_)
elevation_gain(pts) ==
    IF Len(pts) < 2 THEN 0
    ELSE LET n == Len(pts)
             cur == pts[n].altitude[1]
             prev == pts[n - 1].altitude[1]
         IN  elevation_gain(SubSeq(pts, 1, n - 1)) + (IF cur > prev THEN cur - prev ELSE 0)

RECURSIVE elevation_loss(_)
elevation_loss(pts) ==
    IF Len(pts) < 2 THEN 0
    ELSE LET n == Len(pts)
             cur == pts[n].altitude[1]
             prev == pts[n - 1].altitude[1]
         IN  elevation_loss(SubSeq(pts, 1, n - 1)) + (IF cur > prev THEN 0 ELSE prev - cur)

\* calculate_route_info(points) where it does not raise.
calculate_route_info(pts) ==
    IF pts = <<>>
    THEN [points_count |-> 0, total_elevation_gain_x100 |-> 0,
          total_elevation_loss_x100 |-> 0, elevation_profile |-> <<>>]
    ELSE [points_count |-> Len(pts),
          total_elevation_gain_x100 |-> 100 * elevation_gain(pts),
          total_elevation_loss_x100 |-> 100 * elevation_loss(pts),
          elevation_profile |-> [i \in 1..(Len(pts) - 1) |-> pts[i + 1].altitude[1]]]

\* ---------------------------------------------------------------- documents
\* calculate_calories_burned(total_m / 1000, 70.0, ...): the weight finish passes.
finish_user_weight_kg == 70

\* workout_data of start_workout.  end_time_ms, end_time and points_count are
\* absent from it: None, None and the 0 that data.get("points_count", 0) reads.
new_workout_data(uid, workout_type, start_time_ms) ==
    [workout_type |-> workout_type,
     status |-> "active",
     start_time |-> [timestamp |-> start_time_ms],
     end_time_ms |-> None,
     end_time |-> None,
     distance |-> [meters_x100 |-> 0, kilometers_x1000 |-> 0, miles_x1000 |-> 0],
     duration |-> [seconds_x100 |-> 0, minutes_x100 |-> 0],
     pace |-> ZeroPace,
     calories |-> [burned_x10 |-> 0, user_weight |-> 70],
     route |-> [points_count |-> 0, total_elevation_gain_x100 |-> 0,
                total_elevation_loss_x100 |-> 0, elevation_profile |-> <<>>],
     analysis |-> [intensity |-> "low", effort_level |-> 1,
                   zones |-> [warmup |-> 0, active |-> 0, cooldown |-> 0],
                   pace_consistency_x100 |-> None],
     points_count |-> 0,
     user_id |-> uid]

\* The status finish_workout writes.
finish_status == "finished"

\* An update that writes the report and leaves the status.
finish_update_without_status(doc, uid, start_ms, end_time_ms, di, du, pi, ci, ri, ai) ==
    [doc EXCEPT !.end_time_ms = Some(end_time_ms),
                !.start_time = [timestamp |-> start_ms],
                !.end_time = Some([timestamp |-> end_time_ms]),
                !.distance = di,
                !.duration = du,
                !.pace = pi,
                !.calories = ci,
                !.route = ri,
                !.analysis = ai,
                !.user_id = uid]

\* session_ref.update(update_data) of finish_workout applied to the stored document:
\* the keys of update_data are replaced, points_count is not among them.
finish_update(doc, uid, start_ms, end_time_ms, di, du, pi, ci, ri, ai) ==
    [doc EXCEPT !.end_time_ms = Some(end_time_ms),
                !.status = finish_status,
                !.start_time = [timestamp |-> start_ms],
                !.end_time = Some([timestamp |-> end_time_ms]),
                !.distance = di,
                !.duration = du,
                !.pace = pi,
                !.calories = ci,
                !.route = ri,
                !.analysis = ai,
                !.user_id = uid]

\* The documents finish_workout can write for a snapshot, the sorted point list and
\* an end time (one document unless a rounding is a tie); lines 243-315.
finish_documents(doc, uid, start_ms, workout_type, pts, end_time_ms) ==
    LET total_m == TotalDistance(pts)
        ms == duration_ms(end_time_ms, start_ms)
    IN  UNION {
          LET \* pace_info.get("min_per_km", 0), 10.0 when it is None or <= 0
              pace_min_per_km_x100 ==
                  IF pi.min_per_km_x100 <= 0 THEN 1000 ELSE pi.min_per_km_x100
          IN  {finish_update(doc, uid, start_ms, end_time_ms, di, du, pi, ci,
                             calculate_route_info(pts),
                             analyze_workout_intensity(Some(pace_min_per_km_x100), ms)) :
                  di \in calculate_distance_info(total_m),
                  du \in calculate_duration_info(ms),
                  ci \in calculate_calories_burned(total_m, finish_user_weight_kg,
                                                   workout_type, pace_min_per_km_x100)} :
          pi \in calculate_pace_info(total_m, ms)}

\* ---------------------------------------------------------------- requests
Idle ==
    [uid |-> "", sid |-> 0, points |-> <<>>, current_count |-> 0, end_time_ms |-> 0,
     status |-> "", start_ms |-> 0, workout_type |-> "", pts |-> <<>>]

\* An HTTP response: the endpoint, the number of points the request carried, the
\* status code and "added".
Response(op, n, code, added) ==
    [op |-> op, n |-> n, code |-> code, added |-> added]

AddPcs == {"ap_read", "ap_update"}

\* The points stored under every session.
RECURSIVE StoredCount(_)
StoredCount(keys) ==
    IF keys = {} THEN 0
    ELSE LET k == CHOOSE x \in keys : TRUE
         IN  Len(StreamPoints(points_col[k])) + StoredCount(keys \ {k})

\* batch_ref = session_ref.collection("points").document(): the auto-generated id
\* decides the batch's place in stream() order, so it can land anywhere.
InsertAt(batches, pos, batch) ==
    SubSeq(batches, 1, pos) \o <<batch>> \o SubSeq(batches, pos + 1, Len(batches))

Init ==
    /\ docs = <<>>
    /\ points_col = <<>>
    /\ pc = [w \in Workers |-> "idle"]
    /\ loc = [w \in Workers |-> Idle]
    /\ resp = Response("none", 0, 0, 0)
    /\ hist = <<>>

\* A lookup by session id alone, whoever the caller is.
session_doc_of_any_owner(uid, sid) ==
    IF \E key \in DOMAIN docs : key[2] = sid
    THEN CHOOSE key \in DOMAIN docs : key[2] = sid
    ELSE <<uid, sid>>

\* db.collection("users").document(uid).collection("workout").document(session_id)
_session_doc(uid, sid) == <<uid, sid>>

\* The id of the latest session, taken again.
same_id == IF DOMAIN docs = {} THEN Cardinality(DOMAIN docs) + 1 ELSE Cardinality(DOMAIN docs)

\* _sessions_col(uid).document(): an id no session has.
fresh_id == Cardinality(DOMAIN docs) + 1

\* doc_ref of start_workout being the document sid: doc_ref.set(workout_data)
\* and the response.
create_session(uid, sid, workout_type, start_time_ms) ==
    /\ LET key == _session_doc(uid, sid)
       IN  /\ docs' = (key :> new_workout_data(uid, workout_type, start_time_ms)) @@ docs
           /\ points_col' = (key :> <<>>) @@ points_col
           /\ hist' = (key :> [acked |-> <<>>, raced |-> FALSE]) @@ hist
           /\ resp' = Response("start", 0, 200, 0)
    /\ UNCHANGED <<pc, loc>>

\* POST /start: _sessions_col(uid).document() is a fresh id, one set().
start_workout(uid, workout_type, start_time_ms) ==
    /\ Cardinality(DOMAIN docs) < Cardinality(SessionIds)
    /\ create_session(uid, fresh_id, workout_type, start_time_ms)

\* The pool hands a request to its first idle thread.
takes_request(w) == pc[w] = "idle" /\ \A v \in Workers : v < w => pc[v] # "idle"

\* A handler that treats no list as empty.
add_points_never_noop(points) == FALSE

\* if not req.points
add_points_is_noop(points) == points = <<>>

\* A count that grows by one per call.
add_points_new_count_per_call(current_count, n) == current_count + 1

\* count = current_count + len(req.points)
add_points_new_count(current_count, n) == current_count + n

\* A write that replaces the counted document's status as well.
update_points_count_and_status(doc, count) ==
    [doc EXCEPT !.points_count = count, !.status = "active"]

\* session_ref.update({"points_count": count}): the other keys stay.
update_points_count(doc, count) == [doc EXCEPT !.points_count = count]

\* POST /add-points, lines 180-192: the empty-list return, the existence check
\* and the batch write.  The existence of a document never changes once it is
\* created, so the check and the write are one step.
add_points(w, uid, sid, pts) ==
    /\ takes_request(w)
    /\ LET key == _session_doc(uid, sid)
       IN  IF add_points_is_noop(pts)
           THEN /\ resp' = Response("add_points", Len(pts), 200, 0)
                /\ UNCHANGED <<docs, points_col, pc, loc, hist>>
           ELSE IF key \notin DOMAIN docs
           THEN /\ resp' = Response("add_points", Len(pts), 404, 0)
                /\ UNCHANGED <<docs, points_col, pc, loc, hist>>
           ELSE /\ StoredCount(DOMAIN points_col) + Len(pts) <= MaxPoints
                /\ \E pos \in 0..Len(points_col[key]) :
                      points_col' = [points_col EXCEPT ![key] = InsertAt(@, pos, pts)]
                /\ pc' = [pc EXCEPT ![w] = "ap_read"]
                /\ loc' = [loc EXCEPT ![w] = [Idle EXCEPT !.uid = uid, !.sid = sid,
                                                          !.points = pts]]
                /\ hist' = [hist EXCEPT ![key].raced =
                               @ \/ \E v \in Workers \ {w} :
                                       pc[v] \in AddPcs /\ <<loc[v].uid, loc[v].sid>> = key]
                /\ UNCHANGED <<docs, resp>>

\* lines 194-196: snap = session_ref.get(); current_count = data.get("points_count", 0)
\* (points_count is never stored as a str, lines 198-202 do not run)
add_points_read(w) ==
    /\ pc[w] = "ap_read"
    /\ pc' = [pc EXCEPT ![w] = "ap_update"]
    /\ loc' = [loc EXCEPT ![w].current_count =
                       docs[_session_doc(loc[w].uid, loc[w].sid)].points_count]
    /\ UNCHANGED <<docs, points_col, resp, hist>>

\* lines 204-207: session_ref.update({"points_count": count}) and the response
add_points_update(w) ==
    /\ pc[w] = "ap_update"
    /\ LET key == _session_doc(loc[w].uid, loc[w].sid)
           count == add_points_new_count(loc[w].current_count, Len(loc[w].points))
       IN  /\ docs' = [docs EXCEPT ![key] = update_points_count(@, count)]
           /\ resp' = Response("add_points", Len(loc[w].points),
                               200, Len(loc[w].points))
           /\ hist' = [hist EXCEPT ![key].acked = @ \o loc[w].points]
    /\ pc' = [pc EXCEPT ![w] = "idle"]
    /\ loc' = [loc EXCEPT ![w] = Idle]
    /\ UNCHANGED points_col

\* if not start_ms: raise HTTPException(400, ...): 0 is falsy
start_ms_missing(start_ms) == start_ms = 0

\* POST /finish, lines 217-242: the snapshot, the start-time check, the stream of
\* the points and their sort.  What the snapshot gives (existence, start_time.timestamp,
\* workout_type) never changes once the document is created, so reading it and
\* streaming the points are one step.
finish_workout(w, uid, sid, end_time_ms) ==
    /\ takes_request(w)
    /\ LET key == _session_doc(uid, sid)
       IN  IF key \notin DOMAIN docs
           THEN /\ resp' = Response("finish", 0, 404, 0)
                /\ UNCHANGED <<docs, points_col, pc, loc, hist>>
           ELSE IF start_ms_missing(docs[key].start_time.timestamp)
           THEN /\ resp' = Response("finish", 0, 400, 0)
                /\ UNCHANGED <<docs, points_col, pc, loc, hist>>
           ELSE /\ pc' = [pc EXCEPT ![w] = "fin_update"]
                /\ loc' = [loc EXCEPT ![w] =
                              [Idle EXCEPT !.uid = uid, !.sid = sid,
                                           !.end_time_ms = end_time_ms,
                                           !.status = docs[key].status,
                                           !.start_ms = docs[key].start_time.timestamp,
                                           !.workout_type = docs[key].workout_type,
                                           !.pts = SortedByTime(
                                               StreamPoints(points_col[key]))]]
                /\ UNCHANGED <<docs, points_col, resp, hist>>

\* lines 243-328: the metrics, the update of the document and the response; an
\* exception on the way (TypeError in calculate_route_info) becomes a 500.
finish_workout_update(w) ==
    /\ pc[w] = "fin_update"
    /\ LET key == _session_doc(loc[w].uid, loc[w].sid)
       IN  IF route_info_raises(loc[w].pts)
           THEN /\ resp' = Response("finish", 0, 500, 0)
                /\ UNCHANGED docs
           ELSE /\ \E d \in finish_documents(docs[key], loc[w].uid, loc[w].start_ms,
                                            loc[w].workout_type, loc[w].pts,
                                            loc[w].end_time_ms) :
                      docs' = [docs EXCEPT ![key] = d]
                /\ resp' = Response("finish", 0, 200, 0)
    /\ pc' = [pc EXCEPT ![w] = "idle"]
    /\ loc' = [loc EXCEPT ![w] = Idle]
    /\ UNCHANGED <<points_col, hist>>

\* A Firestore call of a handler in progress raises: except Exception -> 500.
storage_error(w) ==
    /\ pc[w] # "idle"
    /\ resp' = Response(IF pc[w] \in AddPcs THEN "add_points" ELSE "finish",
                        Len(loc[w].points), 500, 0)
    /\ pc' = [pc EXCEPT ![w] = "idle"]
    /\ loc' = [loc EXCEPT ![w] = Idle]
    /\ UNCHANGED <<docs, points_col, hist>>

\* WorkoutSessionResponse(id=..., workout_type=..., start_time_ms=..., ...) of
\* get_workout: the required start_time, created_at, updated_at and user_id are not
\* passed, the constructor raises, except Exception -> 500.
get_workout_code(key) == IF key \notin DOMAIN docs THEN 404 ELSE 500

\* A get that also rewrites points_count from the batches it finds.
get_workout_and_recount(uid, sid) ==
    LET key == _session_doc(uid, sid)
    IN  /\ resp' = Response("get", 0, get_workout_code(key), 0)
        /\ docs' = IF key \in DOMAIN docs
                   THEN [docs EXCEPT ![key] =
                            update_points_count(@, Len(StreamPoints(points_col[key])))]
                   ELSE docs
        /\ UNCHANGED <<points_col, pc, loc, hist>>

\* GET /{session_id}
get_workout(uid, sid) ==
    /\ resp' = Response("get", 0, get_workout_code(_session_doc(uid, sid)), 0)
    /\ UNCHANGED <<docs, points_col, pc, loc, hist>>

\* GET /: order_by("start_time_ms") yields the documents that have the field; no
\* document has it (start_workout and finish_workout write start_time.timestamp),
\* so the list is empty.
\* The documents of a user's collection that order_by("start_time_ms") yields.
ordered_by_start_time_ms(uid) ==
    {key \in DOMAIN docs : key[1] = uid /\ "start_time_ms" \in DOMAIN docs[key]}

\* direction="DESCENDING": the keys of a set of documents, latest start_time_ms first.
RECURSIVE descending(_)
descending(keys) ==
    IF keys = {} THEN <<>>
    ELSE LET first == CHOOSE k \in keys :
                         \A j \in keys : docs[j].start_time_ms <= docs[k].start_time_ms
         IN  <<first>> \o descending(keys \ {first})

\* res of list_workouts: the session ids of the response, in its order.
list_workouts_res(uid) ==
    LET q == descending(ordered_by_start_time_ms(uid))
    IN  [i \in 1..Len(q) |-> q[i][2]]

\* WorkoutSessionResponse(...) in the loop raises as in get_workout, so a list
\* with an entry would be a 500.
list_workouts(uid) ==
    /\ resp' = Response("list", 0, IF list_workouts_res(uid) = <<>> THEN 200 ELSE 500, 0)
    /\ UNCHANGED <<docs, points_col, pc, loc, hist>>

\* all_points of get_workout_trajectory and get_workout_route: the batches in
\* stream() order, extended into one list and sorted by t_ms; "trajectory" in the
\* body of the trajectory response.
all_points(key) == SortedByTime(StreamPoints(points_col[key]))

\* GET /{session_id}/trajectory: the existence check; the points are read only.
get_workout_trajectory(uid, sid) ==
    /\ resp' = Response("trajectory", 0,
                        IF _session_doc(uid, sid) \notin DOMAIN docs THEN 404 ELSE 200, 0)
    /\ UNCHANGED <<docs, points_col, pc, loc, hist>>

\* if i == 0 or i == len(all_points) - 1 or i % 10 == 0 (i counts from 0)
route_step == 10
keeps_first_and_steps(i, n) == i = 0 \/ i % route_step = 0
keeps_point(i, n) == i = 0 \/ i = n - 1 \/ i % route_step = 0

\* simplified_route.append({"lat": ..., "lng": ..., "timestamp": point.get("t_ms"),
\* "altitude": ..., "speed": ...}); speed is not modelled.
route_entry(point) ==
    [lat |-> point.lat, lng |-> point.lng, timestamp |-> point.t_ms,
     altitude |-> point.altitude]

\* The loop over enumerate(all_points), up to and including index i - 1.
RECURSIVE simplified_upto(_, _)
simplified_upto(pts, i) ==
    IF i = 0 THEN <<>>
    ELSE LET before == simplified_upto(pts, i - 1)
         IN  IF keeps_point(i - 1, Len(pts))
             THEN Append(before, route_entry(pts[i]))
             ELSE before

\* "route" in the body of the route response
simplified_route(key) == simplified_upto(all_points(key), Len(all_points(key)))

\* GET /{session_id}/route: the existence check; the points are read only.
get_workout_route(uid, sid) ==
    /\ resp' = Response("route", 0,
                        IF _session_doc(uid, sid) \notin DOMAIN docs THEN 404 ELSE 200, 0)
    /\ UNCHANGED <<docs, points_col, pc, loc, hist>>

Next ==
    \/ \E uid \in Owners, wt \in WorkoutTypes, t \in StartTimes : start_workout(uid, wt, t)
    \/ \E w \in Workers, uid \in Users, sid \in SessionIds, pts \in PointLists :
          add_points(w, uid, sid, pts)
    \/ \E w \in Workers : add_points_read(w)
    \/ \E w \in Workers : add_points_update(w)
    \/ \E w \in Workers, uid \in Users, sid \in SessionIds, t \in EndTimes :
          finish_workout(w, uid, sid, t)
    \/ \E w \in Workers : finish_workout_update(w)
    \/ \E w \in Workers : storage_error(w)
    \/ \E uid \in Users, sid \in SessionIds : get_workout(uid, sid)
    \/ \E uid \in Users : list_workouts(uid)
    \/ \E uid \in Users, sid \in SessionIds : get_workout_trajectory(uid, sid)
    \/ \E uid \in Users, sid \in SessionIds : get_workout_route(uid, sid)

Spec == Init /\ [][Next]_vars

\* ---------------------------------------------------------------- finish alone
\* finish_workout on a session that already holds its points: longer point lists
\* than Spec can store, and no other request.
MaxTrackPoints == 3

\* Two places at one time, then each place at a later time; altitude is the
\* latitude index.
TrackPoints ==
    {[lat |-> 0, lng |-> 0, t_ms |-> 1, altitude |-> Some(0)],
     [lat |-> 1, lng |-> 0, t_ms |-> 1, altitude |-> Some(1)],
     [lat |-> 1, lng |-> 0, t_ms |-> 2, altitude |-> Some(1)],
     [lat |-> 0, lng |-> 0, t_ms |-> 3, altitude |-> Some(0)]}

\* The ways add-points requests can have delivered a list: cut into batches.
RECURSIVE Batchings(_)
Batchings(pts) ==
    IF pts = <<>> THEN {<<>>}
    ELSE UNION {{<<SubSeq(pts, 1, k)>> \o rest :
                    rest \in Batchings(SubSeq(pts, k + 1, Len(pts)))} :
                k \in 1..Len(pts)}

\* A session of u1 started at 10 whose add-points calls have all returned: the
\* batches are stored and counted; the response sent last is that of a list request.
InitStored ==
    \E pts \in SeqsUpTo(TrackPoints, MaxTrackPoints) :
        \E batches \in Batchings(pts) :
            /\ docs = (<<"u1", 1>> :>
                          update_points_count(new_workout_data("u1", "run", 10), Len(pts)))
            /\ points_col = (<<"u1", 1>> :> batches)
            /\ hist = (<<"u1", 1>> :> [acked |-> pts, raced |-> FALSE])
            /\ pc = [w \in Workers |-> "idle"]
            /\ loc = [w \in Workers |-> Idle]
            /\ resp = Response("list", 0, 200, 0)

NextFinish ==
    \/ \E w \in Workers, t \in EndTimes : finish_workout(w, "u1", 1, t)
    \/ \E w \in Workers : finish_workout_update(w)

SpecFinish == InitStored /\ [][NextFinish]_vars

\* ---------------------------------------------------------------- reads alone
\* The read endpoints on a session that holds one long batch.
MaxRoutePoints == 12

\* The i-th point of a batch, sent with timestamp t.
NumberedPoint(i, t) == [lat |-> i, lng |-> 0, t_ms |-> t, altitude |-> Some(0)]

\* Batches of n points: in time order, in reverse time order, all at one time.
LongBatches ==
    UNION {{[i \in 1..n |-> NumberedPoint(i, i)],
            [i \in 1..n |-> NumberedPoint(i, n + 1 - i)],
            [i \in 1..n |-> NumberedPoint(i, 1)]} : n \in 0..MaxRoutePoints}

\* A session of u1 started at 10 that one add-points call has filled.
InitLong ==
    \E batch \in LongBatches :
        /\ docs = (<<"u1", 1>> :>
                      update_points_count(new_workout_data("u1", "run", 10), Len(batch)))
        /\ points_col = (<<"u1", 1>> :> IF batch = <<>> THEN <<>> ELSE <<batch>>)
        /\ hist = (<<"u1", 1>> :> [acked |-> batch, raced |-> FALSE])
        /\ pc = [w \in Workers |-> "idle"]
        /\ loc = [w \in Workers |-> Idle]
        /\ resp = Response("list", 0, 200, 0)

NextRead ==
    \/ \E uid \in Users, sid \in SessionIds : get_workout(uid, sid)
    \/ \E uid \in Users : list_workouts(uid)
    \/ \E uid \in Users, sid \in SessionIds : get_workout_trajectory(uid, sid)
    \/ \E uid \in Users, sid \in SessionIds : get_workout_route(uid, sid)

SpecRead == InitLong /\ [][NextRead]_vars

\* ---------------------------------------------------------------- two owners
\* Both users start sessions; the pool has one thread, so requests run one at a
\* time.
MaxSessions == 2
AllSessionIds == 1..MaxSessions
OneThread == {1}
LaterStartTimes == {10}
ShortPointLists == {pts \in PointLists : Len(pts) <= 1}

\* POST /start while the user or another user has sessions.
start_workout_again(uid, workout_type, start_time_ms) ==
    /\ Cardinality(DOMAIN docs) < MaxSessions
    /\ create_session(uid, fresh_id, workout_type, start_time_ms)

NextTwo ==
    \/ \E uid \in Users, wt \in WorkoutTypes, t \in LaterStartTimes :
          start_workout_again(uid, wt, t)
    \/ \E w \in OneThread, uid \in Users, sid \in AllSessionIds, pts \in ShortPointLists :
          add_points(w, uid, sid, pts)
    \/ \E w \in OneThread : add_points_read(w)
    \/ \E w \in OneThread : add_points_update(w)
    \/ \E w \in OneThread, uid \in Users, sid \in AllSessionIds, t \in EndTimes :
          finish_workout(w, uid, sid, t)
    \/ \E w \in OneThread : finish_workout_update(w)
    \/ \E uid \in Users, sid \in AllSessionIds : get_workout(uid, sid)
    \/ \E uid \in Users : list_workouts(uid)
    \/ \E uid \in Users, sid \in AllSessionIds : get_workout_trajectory(uid, sid)
    \/ \E uid \in Users, sid \in AllSessionIds : get_workout_route(uid, sid)

SpecTwo == Init /\ [][NextTwo]_vars

\* ---------------------------------------------------------------- finish at any pace
\* finish_workout on a stored session with end times that put the pace of one and
\* of two metres on both sides of each threshold (the session starts at 10).
PaceEndTimes == {10, 309, 310, 369, 370, 429, 430, 489, 490, 610, 730, 850, 970}

NextPace ==
    \/ \E w \in OneThread, t \in PaceEndTimes : finish_workout(w, "u1", 1, t)
    \/ \E w \in OneThread : finish_workout_update(w)

SpecPace == InitStored /\ [][NextPace]_vars

\* ---------------------------------------------------------------- no such route
\* The router has POST /start, /add-points, /finish and /complete and GET routes
\* only.  A POST to /pause or /resume matches the path of GET /{session_id} and is
\* answered 405; one to /{session_id}/pause matches no path and is answered 404.
\* No handler runs.
UnroutedCodes == {404, 405}
UnroutedOps == {"pause", "resume"}

no_route(op, uid, sid, at_time) ==
    /\ \E code \in UnroutedCodes : resp' = Response(op, 0, code, 0)
    /\ UNCHANGED <<docs, points_col, pc, loc, hist>>

\* One user's session on a pool of one thread, with the requests no route takes.
NextUnrouted ==
    \/ \E uid \in Owners, wt \in WorkoutTypes, t \in StartTimes : start_workout(uid, wt, t)
    \/ \E w \in OneThread, uid \in Users, sid \in SessionIds, pts \in PointLists :
          add_points(w, uid, sid, pts)
    \/ \E w \in OneThread : add_points_read(w)
    \/ \E w \in OneThread : add_points_update(w)
    \/ \E w \in OneThread, uid \in Users, sid \in SessionIds, t \in EndTimes :
          finish_workout(w, uid, sid, t)
    \/ \E w \in OneThread : finish_workout_update(w)
    \/ \E op \in UnroutedOps, uid \in Users, sid \in SessionIds, t \in EndTimes :
          no_route(op, uid, sid, t)

SpecUnrouted == Init /\ [][NextUnrouted]_vars

\* ---------------------------------------------------------------- properties
\* An add-points call on the session is between its batch write and its response.
InFlightAdd(key) ==
    \E w \in Workers : pc[w] \in AddPcs /\ <<loc[w].uid, loc[w].sid>> = key

\* The points stored under a session, and how often a point occurs in a list.
StoredPoints(key) == StreamPoints(points_col[key])
Occurrences(p, pts) == Cardinality({i \in 1..Len(pts) : pts[i] = p})

FinishedKeys == {key \in DOMAIN docs : docs[key].status = finish_status}

\* Stored duration (1/100 s) and end - start (ms) of a finished session.
StoredSeconds_x100(key) == docs[key].duration.seconds_x100
Elapsed(key) == docs[key].end_time_ms[1] - docs[key].start_time.timestamp

AllowedStatusEdges ==
    {<<"active", "paused">>, <<"paused", "active">>,
     <<"active", "finished">>, <<"paused", "finished">>}

\* C1: a status changes only along active -> paused -> active -> ... -> finished, and
\* a finish request that addresses a finished session is rejected at once: it is
\* answered with an error and the documents stay as they are.
C1_StatusTransitions ==
    [][/\ \A key \in DOMAIN docs :
             docs'[key].status # docs[key].status
                 => <<docs[key].status, docs'[key].status>> \in AllowedStatusEdges
       /\ \A w \in Workers, uid \in Users, sid \in SessionIds, t \in EndTimes :
             (/\ finish_workout(w, uid, sid, t)
              /\ <<uid, sid>> \in DOMAIN docs
              /\ docs[<<uid, sid>>].status = finish_status)
                 => (/\ pc'[w] = "idle"
                     /\ resp'.op = "finish"
                     /\ resp'.code # 200
                     /\ docs' = docs)]_vars

\* C2: a finish request that found its session already finished does not succeed
\* and does not rewrite the session's record.
C2_SecondFinishFails ==
    [][\A w \in Workers :
          (finish_workout_update(w) /\ loc[w].status = finish_status)
              => (resp'.code # 200 /\ docs' = docs)]_vars

\* C3: finished is terminal: no step of any operation changes the status of a
\* session that is finished.
C3_FinishedIsTerminal ==
    [][\A key \in DOMAIN docs :
          docs[key].status = finish_status => docs'[key].status = finish_status]_vars

\* C3 witness: a finished session whose finish streamed one point and on which a
\* later add-points call has stored and counted a second one.
C3_Witness ==
    \E key \in FinishedKeys :
        /\ docs[key].route.points_count = 1
        /\ docs[key].points_count = 2
        /\ resp = Response("add_points", 1, 200, 1)

\* C4: add-points with a non-empty list on a session that does not exist or is not
\* active or paused (finished, in particular) answers not found, stores no batch and
\* leaves the documents, so the count, as they are.
C4_AddPointsNeedsOpenSession ==
    [][\A w \in Workers, uid \in Users, sid \in SessionIds,
          pts \in PointLists \ {<<>>} :
          (/\ add_points(w, uid, sid, pts)
           /\ \/ <<uid, sid>> \notin DOMAIN docs
              \/ docs[<<uid, sid>>].status \notin {"active", "paused"})
              => (/\ resp' = Response("add_points", Len(pts), 404, 0)
                  /\ points_col' = points_col
                  /\ docs' = docs)]_vars

\* C5, as the code has it: the stored duration of a finished session is never
\* negative; when the end is not before the start it is end - start rounded to
\* 1/100 s, so within 5 ms of it; when the end is before the start it is 0.
C5_DurationBounds ==
    \A key \in FinishedKeys :
        /\ StoredSeconds_x100(key) >= 0
        /\ Elapsed(key) >= 0 => Abs(10 * StoredSeconds_x100(key) - Elapsed(key)) <= 5
        /\ Elapsed(key) < 0 => StoredSeconds_x100(key) = 0

\* C5 witness: a session finished with an end time before its start time.
C5_Witness ==
    \E key \in FinishedKeys : Elapsed(key) < 0 /\ StoredSeconds_x100(key) = 0

\* C5 as stated: the stored duration of every finished session is at least 0 and at
\* most end - start.
C5_Original ==
    \A key \in FinishedKeys :
        /\ StoredSeconds_x100(key) >= 0
        /\ 10 * StoredSeconds_x100(key) <= Elapsed(key)

\* C6: a finish request on an active session is carried out, whatever the start
\* time, and stores as duration the time from start to end less the pauses (the
\* program has none), clamped at 0.
C6_DurationIsElapsedTime ==
    [][/\ \A w \in Workers, uid \in Users, sid \in SessionIds, t \in EndTimes :
             (/\ finish_workout(w, uid, sid, t)
              /\ <<uid, sid>> \in DOMAIN docs
              /\ docs[<<uid, sid>>].status = "active")
                 => pc'[w] = "fin_update"
       /\ \A w \in Workers :
             (finish_workout_update(w) /\ resp'.code = 200)
                 => 10 * docs'[<<loc[w].uid, loc[w].sid>>].duration.seconds_x100
                        = Max(0, loc[w].end_time_ms - loc[w].start_ms)]_vars

\* Two points, both at one place.
CoLocatedPair(pts) ==
    Len(pts) = 2 /\ pts[1].lat = pts[2].lat /\ pts[1].lng = pts[2].lng

\* C7: finishing, with no other request in progress, an active session that holds
\* two co-located points succeeds, for
\* any start time (0 included), with distance 0, every pace field 0, calories 0 and
\* the duration end - start.
C7_CoLocatedFinish ==
    [][/\ \A w \in Workers, uid \in Users, sid \in SessionIds, t \in EndTimes :
             (/\ finish_workout(w, uid, sid, t)
              /\ <<uid, sid>> \in DOMAIN docs
              /\ docs[<<uid, sid>>].status = "active"
              /\ \A v \in Workers : pc[v] = "idle"
              /\ CoLocatedPair(StoredPoints(<<uid, sid>>)))
                 => pc'[w] = "fin_update"
       /\ \A w \in Workers :
             (finish_workout_update(w) /\ CoLocatedPair(loc[w].pts))
                 => LET d == docs'[<<loc[w].uid, loc[w].sid>>]
                    IN  /\ resp' = Response("finish", 0, 200, 0)
                        /\ d.distance.meters_x100 = 0
                        /\ d.pace = ZeroPace
                        /\ d.calories.burned_x10 = 0
                        /\ d.duration.seconds_x100 * 10
                               = loc[w].end_time_ms - loc[w].start_ms]_vars

\* C8: add-points with an empty list answers 200 with 0 added and changes neither a
\* document nor a stored batch.
C8_EmptyAddPointsIsNoop ==
    [][\A w \in Workers, uid \in Users, sid \in SessionIds :
          add_points(w, uid, sid, <<>>)
              => (/\ resp' = Response("add_points", 0, 200, 0)
                  /\ UNCHANGED <<docs, points_col>>)]_vars

\* C8 witness: an empty add-points call was answered while a session held points.
C8_Witness ==
    /\ resp = Response("add_points", 0, 200, 0)
    /\ \E key \in DOMAIN docs : docs[key].points_count > 0 /\ StoredPoints(key) # <<>>

\* C9: while no two add-points calls on a session have overlapped, its points_count
\* is the number of points of the calls answered with 200 and every one of those
\* points is stored, as often as it was sent; a call answered with 200 reports as
\* added the length of its list.
C9_SequentialAddPointsCount ==
    /\ \A key \in DOMAIN docs :
          ~hist[key].raced
              => /\ docs[key].points_count = Len(hist[key].acked)
                 /\ \A p \in LocationPoint :
                       Occurrences(p, hist[key].acked) <= Occurrences(p, StoredPoints(key))
    /\ (resp.op = "add_points" /\ resp.code = 200) => resp.added = resp.n

\* C9 witness: two calls, one after the other, each sent the same point; both
\* copies are stored and counted.
C9_Witness ==
    \E key \in DOMAIN docs :
        /\ ~hist[key].raced
        /\ Len(points_col[key]) = 2
        /\ Len(hist[key].acked) = 2
        /\ hist[key].acked[1] = hist[key].acked[2]
        /\ docs[key].points_count = 2

\* C10: once the add-points calls on a session have returned, overlapping or not,
\* its points_count is the number of points of the calls answered with 200.
C10_ConcurrentAddPointsCount ==
    \A key \in DOMAIN docs :
        ~InFlightAdd(key) => docs[key].points_count = Len(hist[key].acked)

\* C11: a finish that stores its report on a session still active has in its point
\* set every point of the add-points calls answered with 200 until then: a batch
\* acknowledged before the session is finished is part of the stored metrics.
C11_FinishSeesAcknowledgedPoints ==
    [][\A w \in Workers :
          (/\ finish_workout_update(w)
           /\ resp'.code = 200
           /\ docs[<<loc[w].uid, loc[w].sid>>].status = "active")
              => \A p \in LocationPoint :
                    Occurrences(p, hist[<<loc[w].uid, loc[w].sid>>].acked)
                        <= Occurrences(p, loc[w].pts)]_vars

\* What finish_workout reports of a session: the keys of a document its update writes
\* besides the status.
ReportOf(doc) ==
    [end_time_ms |-> doc.end_time_ms, end_time |-> doc.end_time,
     distance |-> doc.distance, duration |-> doc.duration, pace |-> doc.pace,
     calories |-> doc.calories, route |-> doc.route, analysis |-> doc.analysis]

\* The report of a session that was started and not finished.
InitialReport == ReportOf(new_workout_data("", "run", 0))

\* The document is, whole, what one finish writes for one point list.
HasCompleteReport(doc) ==
    /\ doc.end_time_ms # None
    /\ \E pts \in PointLists :
          /\ ~route_info_raises(pts)
          /\ doc \in finish_documents(doc, doc.user_id, doc.start_time.timestamp,
                                      doc.workout_type, pts, doc.end_time_ms[1])

\* C12: finish is atomic.  Every stored session is either finished with a complete
\* report or not finished with the report it was created with, and a finish step
\* that does not answer 200 (not found, missing start, an exception in the metrics
\* or in storage) leaves every document as it was.
C12_FinishIsAtomic ==
    /\ [](\A key \in DOMAIN docs :
             IF docs[key].status = finish_status
             THEN HasCompleteReport(docs[key])
             ELSE ReportOf(docs[key]) = InitialReport)
    /\ [][\A w \in Workers :
             (/\ resp'.op = "finish"
              /\ resp'.code # 200
              /\ \/ finish_workout_update(w)
                 \/ storage_error(w)
                 \/ \E uid \in Users, sid \in SessionIds, t \in EndTimes :
                       finish_workout(w, uid, sid, t))
                 => docs' = docs]_vars

\* C12 witness: a finish failed in the metrics (two stored points, one without
\* altitude) and the session is still active with its initial report.
C12_Witness ==
    /\ resp = Response("finish", 0, 500, 0)
    /\ \E key \in DOMAIN docs :
          /\ docs[key].status = "active"
          /\ ReportOf(docs[key]) = InitialReport
          /\ route_info_raises(SortedByTime(StoredPoints(key)))

\* C13: metrics are computed once.  While a session is not finished its report has
\* the values it was created with, and no step changes the report of a session
\* that is finished.
C13_MetricsComputedOnce ==
    [][\A key \in DOMAIN docs :
          /\ docs[key].status # finish_status => ReportOf(docs[key]) = InitialReport
          /\ docs[key].status = finish_status
                 => ReportOf(docs'[key]) = ReportOf(docs[key])]_vars

\* Ascending by timestamp.
IsTimeSorted(pts) == \A i \in 1..(Len(pts) - 1) : pts[i].t_ms <= pts[i + 1].t_ms

\* C14: the trajectory holds every stored point, ascending by timestamp, ties in
\* arrival order: when a batch is stored, the trajectory becomes the old trajectory
\* with the batch's points appended and the whole sorted stably, so a new point
\* comes after the points of its timestamp that arrived before it.
C14_TrajectoryStableByArrival ==
    [][\A w \in Workers, uid \in Users, sid \in SessionIds,
          pts \in PointLists \ {<<>>} :
          (add_points(w, uid, sid, pts) /\ <<uid, sid>> \in DOMAIN docs)
              => (/\ IsTimeSorted(all_points(<<uid, sid>>)')
                  /\ Len(all_points(<<uid, sid>>)')
                         = Len(all_points(<<uid, sid>>)) + Len(pts)
                  /\ all_points(<<uid, sid>>)'
                         = SortedByTime(all_points(<<uid, sid>>) \o pts))]_vars

\* The lists that hold the points of a list, each as often, in any order.
Arrangements(pts) ==
    LET S == {pts[i] : i \in 1..Len(pts)}
    IN  {q \in [1..Len(pts) -> S] : \A p \in S : Occurrences(p, q) = Occurrences(p, pts)}

DistinctTimes(pts) ==
    \A i, j \in 1..Len(pts) : i # j => pts[i].t_ms # pts[j].t_ms

\* C15, as the code has it: the distance a finish stores is the sum of the distances
\* between consecutive points of the stored points taken in ascending timestamp
\* order (one order only, whatever the arrival order, when no two points share a
\* timestamp), and it is 0 for no point or one point.
C15_DistanceOverTimeOrder ==
    \A key \in FinishedKeys :
        LET stored == StoredPoints(key)
        IN  /\ Len(stored) <= 1 => docs[key].distance.meters_x100 = 0
            /\ \E q \in Arrangements(stored) :
                  /\ IsTimeSorted(q)
                  /\ docs[key].distance.meters_x100 = 100 * TotalDistance(q)

\* C15 witness: a finished session of three points with three timestamps, stored
\* out of time order, with a distance.
C15_Witness ==
    \E key \in FinishedKeys :
        /\ Len(StoredPoints(key)) = 3
        /\ DistinctTimes(StoredPoints(key))
        /\ ~IsTimeSorted(StoredPoints(key))
        /\ docs[key].distance.meters_x100 > 0

\* C15 as stated: the stored distance is the sum over the time-sorted points
\* regardless of the order in which the points arrived, so it is the sum over every
\* arrangement of the stored points that ascends by timestamp.
C15_Original ==
    \A key \in FinishedKeys :
        LET stored == StoredPoints(key)
        IN  /\ Len(stored) <= 1 => docs[key].distance.meters_x100 = 0
            /\ \A q \in Arrangements(stored) :
                  IsTimeSorted(q)
                      => docs[key].distance.meters_x100 = 100 * TotalDistance(q)

\* The positions (from 1) of a time-sorted list of n points that the route keeps:
\* the first, the last and every tenth after the first.
RouteKeeps(n) == {i \in 1..n : i = 1 \/ i = n \/ (i - 1) % 10 = 0}

\* The j-th smallest member of a set of numbers.
Nth(K, j) == CHOOSE i \in K : Cardinality({x \in K : x < i}) = j - 1

\* C16: the route is the time-sorted points at the kept positions, in their order,
\* each position once: the first and the last point and every tenth are in it, and
\* it is empty exactly when the session has no points.
C16_RouteSimplification ==
    \A key \in DOMAIN docs :
        LET sorted == all_points(key)
            route == simplified_route(key)
        IN  /\ route = <<>> <=> StoredPoints(key) = <<>>
            /\ Len(route) = Cardinality(RouteKeeps(Len(sorted)))
            /\ \A j \in 1..Len(route) :
                  LET p == sorted[Nth(RouteKeeps(Len(sorted)), j)]
                  IN  /\ route[j].lat = p.lat
                      /\ route[j].lng = p.lng
                      /\ route[j].timestamp = p.t_ms
                      /\ route[j].altitude = p.altitude

\* C16 witness: a route request answered on a session of twelve points sent in
\* reverse time order; the route has the first, the eleventh and the last.
C16_Witness ==
    /\ resp = Response("route", 0, 200, 0)
    /\ \E key \in DOMAIN docs :
          /\ Len(StoredPoints(key)) = 12
          /\ ~IsTimeSorted(StoredPoints(key))
          /\ Len(simplified_route(key)) = 3
          /\ simplified_route(key)[2].timestamp = 11

\* C17: a list request of a user answers with every session the user created,
\* active or finished, latest start first.
C17_ListHasEverySession ==
    [][\A uid \in Users :
          list_workouts(uid)
              => LET res == list_workouts_res(uid)
                 IN  /\ resp'.code = 200
                     /\ \A key \in DOMAIN docs :
                           key[1] = uid => \E i \in 1..Len(res) : res[i] = key[2]
                     /\ \A i \in 1..(Len(res) - 1) :
                           docs[<<uid, res[i]>>].start_time.timestamp
                               >= docs[<<uid, res[i + 1]>>].start_time.timestamp]_vars

\* The session id belongs to a session of somebody other than the caller.
OwnedByAnother(uid, sid) ==
    \E key \in DOMAIN docs : key[2] = sid /\ docs[key].user_id # uid

\* The step leaves the documents, batches and counts of every other user alone.
OthersUnchanged(uid) ==
    \A key \in DOMAIN docs :
        docs[key].user_id # uid
            => docs'[key] = docs[key] /\ points_col'[key] = points_col[key]

\* The step belongs to a request of the user.
StepOf(uid) ==
    \/ \E wt \in WorkoutTypes, t \in LaterStartTimes : start_workout_again(uid, wt, t)
    \/ \E w \in Workers, sid \in AllSessionIds, pts \in ShortPointLists :
          add_points(w, uid, sid, pts)
    \/ \E w \in Workers, sid \in AllSessionIds, t \in EndTimes :
          finish_workout(w, uid, sid, t)
    \/ \E w \in Workers :
          /\ pc[w] # "idle"
          /\ loc[w].uid = uid
          /\ add_points_read(w) \/ add_points_update(w) \/ finish_workout_update(w)
    \/ \E sid \in AllSessionIds :
          get_workout(uid, sid) \/ get_workout_trajectory(uid, sid)
              \/ get_workout_route(uid, sid)
    \/ list_workouts(uid)

\* What a request on another user's session does, whether or not the answer to an
\* empty add-points has to be SessionNotFound.
ForeignRequestsFail(empty_add_code) ==
    \A uid \in Users, sid \in AllSessionIds :
        OwnedByAnother(uid, sid)
            => /\ \A w \in Workers, pts \in ShortPointLists :
                     add_points(w, uid, sid, pts)
                         => /\ resp'.code = IF pts = <<>> THEN empty_add_code ELSE 404
                            /\ resp'.added = 0
                            /\ UNCHANGED <<docs, points_col, pc>>
               /\ \A w \in Workers, t \in EndTimes :
                     finish_workout(w, uid, sid, t)
                         => resp'.code = 404 /\ UNCHANGED <<docs, points_col, pc>>
               /\ get_workout(uid, sid) => resp'.code = 404
               /\ get_workout_trajectory(uid, sid) => resp'.code = 404
               /\ get_workout_route(uid, sid) => resp'.code = 404

\* C18: a request addressed to a session of another user is answered with
\* SessionNotFound (404) and changes nothing, except that add-points with an empty
\* list is answered with success and 0 added; and no step of a request of one user
\* changes a document, a batch or a count of another user.
C18_OwnerIsolation ==
    [][/\ ForeignRequestsFail(200)
       /\ (docs' # docs \/ points_col' # points_col)
              => \A uid \in Users : StepOf(uid) => OthersUnchanged(uid)]_vars

\* C18 witness: both users have a session, the session of one of them holds a
\* point, and a non-empty add-points on the other user's session was answered
\* with 404.
C18_Witness ==
    /\ resp = Response("add_points", 1, 404, 0)
    /\ \A sid \in AllSessionIds : \E key \in DOMAIN docs : key[2] = sid
    /\ \A uid \in Users : \E key \in DOMAIN docs : docs[key].user_id = uid
    /\ \E key \in DOMAIN docs : StoredPoints(key) # <<>>

\* C18 as stated: every request on another user's session, the empty add-points
\* included, is answered with SessionNotFound.
C18_Original ==
    [][ForeignRequestsFail(404)]_vars

\* The endpoints that only read.
ReadOps == {"get", "list", "trajectory", "route"}

\* C19: a get, list, trajectory or route request leaves every document, batch and
\* count as it was, and a get of the same session right after a get is answered
\* as the first one was.
C19_ReadsArePure ==
    [][/\ (/\ resp'.op \in ReadOps
           /\ \/ \E uid \in Users : list_workouts(uid)
              \/ \E uid \in Users, sid \in SessionIds :
                    \/ get_workout(uid, sid)
                    \/ get_workout_trajectory(uid, sid)
                    \/ get_workout_route(uid, sid))
              => UNCHANGED <<docs, points_col>>
       /\ \A uid \in Users, sid \in SessionIds :
              (resp'.op = "get" /\ get_workout(uid, sid))
                  => resp' = Response("get", 0, get_workout_code(<<uid, sid>>)', 0)]_vars

\* C19 witness: a get was answered for a user's session while a batch of the
\* session was stored and not yet counted.
C19_Witness ==
    /\ resp.op = "get"
    /\ resp.code # 404
    /\ \E key \in DOMAIN docs : Len(StoredPoints(key)) > docs[key].points_count

\* The zero metrics of a session that has just been started.
HasZeroMetrics(doc) ==
    /\ doc.distance = [meters_x100 |-> 0, kilometers_x1000 |-> 0, miles_x1000 |-> 0]
    /\ doc.duration = [seconds_x100 |-> 0, minutes_x100 |-> 0]
    /\ doc.pace = ZeroPace
    /\ doc.calories.burned_x10 = 0
    /\ doc.route.points_count = 0
    /\ doc.points_count = 0

\* C20: a start request is answered with success whatever sessions exist; it adds
\* one session of the caller under an id no session had, active, with zero
\* metrics and no points, and leaves every earlier session and its points as
\* they were.
C20_StartAddsOneSession ==
    [][\A uid \in Users, wt \in WorkoutTypes, t \in LaterStartTimes :
          start_workout_again(uid, wt, t)
              => /\ resp' = Response("start", 0, 200, 0)
                 /\ \E sid \in AllSessionIds :
                       /\ \A key \in DOMAIN docs : key[2] # sid
                       /\ DOMAIN docs' = DOMAIN docs \cup {<<uid, sid>>}
                       /\ docs'[<<uid, sid>>].user_id = uid
                       /\ docs'[<<uid, sid>>].workout_type = wt
                       /\ docs'[<<uid, sid>>].status = "active"
                       /\ docs'[<<uid, sid>>].start_time.timestamp = t
                       /\ HasZeroMetrics(docs'[<<uid, sid>>])
                       /\ points_col'[<<uid, sid>>] = <<>>
                 /\ \A key \in DOMAIN docs :
                       docs'[key] = docs[key] /\ points_col'[key] = points_col[key]]_vars

\* C20 witness: a user with an active session that holds a point has started a
\* second session.
C20_Witness ==
    /\ resp = Response("start", 0, 200, 0)
    /\ \E uid \in Users :
          /\ \A sid \in AllSessionIds : <<uid, sid>> \in DOMAIN docs
          /\ \A sid \in AllSessionIds : docs[<<uid, sid>>].status = "active"
          /\ \E sid \in AllSessionIds : StoredPoints(<<uid, sid>>) # <<>>

\* C21: a pause request on an active session is answered with success and makes
\* the session paused; a resume request on a session that is not paused fails; and
\* a document has a pending pause start exactly when its status is paused.
C21_PauseResumeCycle ==
    /\ [](\A key \in DOMAIN docs :
             "pending_pause_start" \in DOMAIN docs[key] <=> docs[key].status = "paused")
    /\ [][\A uid \in Users, sid \in SessionIds, t \in EndTimes :
             <<uid, sid>> \in DOMAIN docs
                 => /\ (no_route("pause", uid, sid, t) /\ docs[<<uid, sid>>].status = "active")
                           => resp'.code = 200 /\ docs'[<<uid, sid>>].status = "paused"
                    /\ (no_route("resume", uid, sid, t) /\ docs[<<uid, sid>>].status # "paused")
                           => resp'.code # 200 /\ docs' = docs]_vars

\* Body weights a caller of finish may want used (kg).
SuppliedWeights == {60, 80}

\* C22: the calories a finish stores are distance_km x weight x pace factor x type
\* factor for the weight the caller supplied, and the report records that weight.
C22_CaloriesUseSuppliedWeight ==
    [][\A w \in Workers, weight \in SuppliedWeights :
          (finish_workout_update(w) /\ resp'.code = 200)
              => LET stored == docs'[<<loc[w].uid, loc[w].sid>>]
                     pace == IF stored.pace.min_per_km_x100 <= 0
                             THEN 1000 ELSE stored.pace.min_per_km_x100
                 IN  /\ stored.calories.user_weight = weight
                     /\ stored.calories.burned_x10 \in
                            RoundOutcomes(TotalDistance(loc[w].pts) * weight
                                              * pace_factor_x10(pace)
                                              * type_factor_x10(stored.workout_type),
                                          10000)]_vars

\* The altitude of a point, 0 when the point has none.
AltitudeOrZero(p) == IF p.altitude = None THEN 0 ELSE p.altitude[1]

\* The rises, and the drops, between consecutive points of a list.
RECURSIVE Rises(_)
Rises(pts) ==
    IF Len(pts) < 2 THEN 0
    ELSE Rises(Tail(pts))
         + Max(0, AltitudeOrZero(pts[2]) - AltitudeOrZero(pts[1]))

RECURSIVE Drops(_)
Drops(pts) ==
    IF Len(pts) < 2 THEN 0
    ELSE Drops(Tail(pts))
         + Max(0, AltitudeOrZero(pts[1]) - AltitudeOrZero(pts[2]))

\* C23: a finish succeeds whether or not the points carry an altitude, and stores
\* as gain and loss the rises and drops between consecutive points in time order,
\* a missing altitude counting as 0.
C23_ElevationMissingAsZero ==
    [][\A w \in Workers :
          (pc[w] = "fin_update" /\ finish_workout_update(w))
              => /\ resp'.code = 200
                 /\ LET route == docs'[<<loc[w].uid, loc[w].sid>>].route
                     IN  /\ route.total_elevation_gain_x100 = 100 * Rises(loc[w].pts)
                         /\ route.total_elevation_loss_x100 = 100 * Drops(loc[w].pts)]_vars

\* C24: a finish of a session that did not move, or whose end is not after its
\* start, is not answered with an error: it stores status finished and a pace of
\* 0 in all four units.
C24_NoMovementFinishes ==
    [][\A w \in Workers :
          /\ \A uid \in Users, sid \in SessionIds, t \in EndTimes :
                (/\ pc[w] = "idle"
                 /\ <<uid, sid>> \in DOMAIN docs
                 /\ \/ TotalDistance(all_points(<<uid, sid>>)) = 0
                    \/ t <= docs[<<uid, sid>>].start_time.timestamp
                 /\ finish_workout(w, uid, sid, t))
                    => pc'[w] = "fin_update"
          /\ (/\ pc[w] = "fin_update"
              /\ \/ TotalDistance(loc[w].pts) = 0
                 \/ loc[w].end_time_ms <= loc[w].start_ms
              /\ finish_workout_update(w))
                 => /\ resp'.code = 200
                    /\ docs'[<<loc[w].uid, loc[w].sid>>].status = finish_status
                    /\ docs'[<<loc[w].uid, loc[w].sid>>].pace = ZeroPace]_vars

\* C25: the zones of a finished session are 10%, 80% and 10% of its duration in
\* whole seconds, each of the three raised to 60 seconds when it is less.
C25_ZonesSplitAndClamp ==
    \A key \in FinishedKeys :
        LET ms == Max(0, Elapsed(key))
            zones == docs[key].analysis.zones
        IN  /\ zones.warmup = Max(60, ms \div 10000)
            /\ zones.active = Max(60, (8 * ms) \div 10000)
            /\ zones.cooldown = Max(60, ms \div 10000)

\* Paces given to the analysis: none, negative, zero, and both sides of each
\* threshold (1/100 min/km).
PaceInputs ==
    {None} \cup {Some(p) : p \in {-100, 0, 1, 499, 500, 599, 600, 699, 700, 799, 800, 1000}}

\* The effort level and the label of a pace: <5, <6, <7, <8, >=8 min/km, a pace
\* that is missing or not positive being in the slowest bucket.
BucketOf(pace) ==
    IF pace = None THEN <<1, "low">>
    ELSE IF pace[1] <= 0 THEN <<1, "low">>
    ELSE IF pace[1] < 500 THEN <<5, "very_high">>
    ELSE IF pace[1] < 600 THEN <<4, "high">>
    ELSE IF pace[1] < 700 THEN <<3, "moderate">>
    ELSE IF pace[1] < 800 THEN <<2, "low">>
    ELSE <<1, "low">>

\* C26: the analysis gives every pace, a missing, zero or negative one included,
\* the effort level and label of its bucket, an integer from 1 to 5; and a
\* finished session carries the level and label of its stored pace.
C26_IntensityBuckets ==
    /\ \A pace \in PaceInputs, ms \in {0, 336, 600000} :
          LET a == analyze_workout_intensity(pace, ms)
          IN  /\ a.effort_level \in 1..5
              /\ <<a.effort_level, a.intensity>> = BucketOf(pace)
    /\ \A key \in FinishedKeys :
          <<docs[key].analysis.effort_level, docs[key].analysis.intensity>>
              = BucketOf(Some(docs[key].pace.min_per_km_x100))

\* C26 witness: a session finished at a pace between 7 and 8 min/km, stored with
\* effort level 2 and the label low.
C26_Witness ==
    \E key \in FinishedKeys :
        /\ docs[key].pace.min_per_km_x100 \in 700..799
        /\ docs[key].analysis.effort_level = 2
        /\ docs[key].analysis.intensity = "low"

\* C27: a get of an existing session by its owner is answered with success.
C27_GetSessionSucceeds ==
    [][\A uid \in Users, sid \in SessionIds :
          (/\ resp'.op = "get"
           /\ <<uid, sid>> \in DOMAIN docs
           /\ get_workout(uid, sid))
              => resp'.code = 200]_vars

\* C28: for a finished session the point count of its report, its points_count
\* and the number of points stored for it are one number.
C28_FinishedCountsAgree ==
    \A key \in FinishedKeys :
        /\ docs[key].route.points_count = docs[key].points_count
        /\ docs[key].points_count = Len(StoredPoints(key))

\* C29: once no add-points call on a session is running, every batch stored for
\* it is counted, whether the calls were answered with success or with an error
\* (sessions on which two add-points calls overlapped aside).
C29_AddPointsAllOrNothing ==
    \A key \in DOMAIN docs :
        (~InFlightAdd(key) /\ ~hist[key].raced)
            => docs[key].points_count = Len(StoredPoints(key))

\* C30: the distance, gain and loss of a finished session are those of every
\* order in which its stored points could have been streamed: they depend on the
\* points only, not on their batches or the order of the batches.
C30_TotalsDependOnPointsOnly ==
    \A key \in FinishedKeys :
        \A q \in Arrangements(StoredPoints(key)) :
            /\ docs[key].distance.meters_x100 = 100 * TotalDistance(SortedByTime(q))
            /\ docs[key].route.total_elevation_gain_x100
                   = 100 * elevation_gain(SortedByTime(q))
            /\ docs[key].route.total_elevation_loss_x100
                   = 100 * elevation_loss(SortedByTime(q))

====
